---- MODULE Spec2Model ----
(***************************************************************************)
(* The DAG scheduler and the Pipeline executor of                          *)
(* hacker_news_data_pipeline.ipynb (classes DAG and Pipeline).             *)
(*                                                                         *)
(* A Python dict is a record [keys, val]: keys is the sequence of its keys *)
(* in insertion order, val the function from key to value.  Nodes are      *)
(* opaque hashable objects (the decorated functions); they are numbered    *)
(* 1, 2, ... in the order in which they first enter the graph.  A unit of  *)
(* work is an uninterpreted function: its output is the sequence of the    *)
(* works applied so far, so workC(workB(workA())) is <<A, B, C>>.          *)
(***************************************************************************)
EXTENDS Integers, Sequences, FiniteSets, TLC

MaxNodes == 3
MaxEdges == 2

\* The diamond A -> B, A -> C, B -> D, C -> D of the notebook's kind of pipeline
\* with two branches; its stages of construction are explored beside every
\* graph of at most MaxNodes nodes and MaxEdges edges.
DiamondNodes == {1, 2, 3, 4}
DiamondEdges == {<<1, 2>>, <<1, 3>>, <<2, 4>>, <<3, 4>>}

None == 0
Nodes == (1..MaxNodes) \cup DiamondNodes

\* Python truthiness of an argument: None is falsy, a function object is truthy.
Truthy(x) == x # None

VARIABLES
    graph,      \* DAG.graph: dict node -> list of successors
    degrees,    \* DAG.degrees: dict node -> remaining in-degree (set by in_degrees, decremented by sort)
    searched,   \* the list returned by the most recent DAG.sort()
    outcome,    \* how the most recent call ended: "ok", "cycle", "returned", "failed", "keyerror" ("sorting": not yet)
    scheduled,  \* Pipeline.run: local `scheduled` of the most recent call, when that call was run()
    completed,  \* Pipeline.run: the table `completed` of the most recent call, when that call was run()
    calls,      \* the invocations of units of work made by that run(), in order
    fault,      \* the behaviour of the units of work in that run(): which invocation raises
    call,       \* the most recent call: its name and the shape of its arguments
    pc,         \* "idle", or "loop" while a sort() followed step by step is in its while loop
    deque       \* DAG.sort: the deque `d` of that sort()

vars == <<graph, degrees, searched, outcome, scheduled, completed, calls, fault, call, pc, deque>>

----------------------------------------------------------------------------
(* dict helpers *)

EmptyDict == [keys |-> <<>>, val |-> <<>>]

Has(d, k) == k \in DOMAIN d.val

Put(d, k, v) ==
    [keys |-> IF Has(d, k) THEN d.keys ELSE Append(d.keys, k),
     val  |-> (k :> v) @@ d.val]

In(x, list) == \E i \in 1..Len(list) : list[i] = x

----------------------------------------------------------------------------
(* DAG.in_degrees *)

\* in_degrees without the `+= 1` branch: a pointer seen again still counts 1
RECURSIVE CountPointersOnce(_, _)
CountPointersOnce(deg, pointers) ==
    IF pointers = <<>> THEN deg
    ELSE CountPointersOnce(Put(deg, Head(pointers), 1), Tail(pointers))

RECURSIVE CountPointers(_, _)
CountPointers(deg, pointers) ==
    IF pointers = <<>> THEN deg
    ELSE LET pointer == Head(pointers)
             deg1 == IF ~Has(deg, pointer) THEN Put(deg, pointer, 1)
                     ELSE Put(deg, pointer, deg.val[pointer] + 1)
         IN  CountPointers(deg1, Tail(pointers))

\* in_degrees without the entry 0 for a node not seen yet
RECURSIVE CountNodesNoInit(_, _, _)
CountNodesNoInit(g, deg, i) ==
    IF i > Len(g.keys) THEN deg
    ELSE CountNodesNoInit(g, CountPointers(deg, g.val[g.keys[i]]), i + 1)

RECURSIVE CountNodes(_, _, _)
CountNodes(g, deg, i) ==
    IF i > Len(g.keys) THEN deg
    ELSE LET node == g.keys[i]
             deg0 == IF ~Has(deg, node) THEN Put(deg, node, 0) ELSE deg
         IN  CountNodes(g, CountPointers(deg0, g.val[node]), i + 1)

in_degrees(g) == CountNodes(g, EmptyDict, 1)

----------------------------------------------------------------------------
(* DAG.sort: the state of the loop is [graph, degrees, d, searched] *)

\* sort without the test `self.degrees[node] == 0` on the seeds
ZeroDegreeUntested(deg) == deg.keys

ZeroDegree(deg) == SelectSeq(deg.keys, LAMBDA node : deg.val[node] = 0)

RECURSIVE Visit(_, _)
Visit(st, pointers) ==
    IF pointers = <<>> THEN st
    ELSE LET pointer == Head(pointers)
             n == st.degrees.val[pointer] - 1
             st1 == [st EXCEPT !.degrees.val[pointer] = n,
                               !.d = IF n = 0 THEN Append(@, pointer) ELSE @]
         IN  Visit(st1, Tail(pointers))

\* the loop of sort taking the newest node of the deque (`d.pop()`)
RECURSIVE DrainLifo(_)
DrainLifo(st) ==
    IF st.d = <<>> THEN st
    ELSE LET node_i == st.d[Len(st.d)]
             st1 == [st EXCEPT !.d = SubSeq(@, 1, Len(@) - 1)]
             st2 == Visit(st1, st1.graph.val[node_i])
         IN  DrainLifo([st2 EXCEPT !.searched = Append(@, node_i)])

\* one iteration of `while d`
DrainStep(st) ==
    LET node_i == Head(st.d)
        st1 == [st EXCEPT !.d = Tail(@)]
        st2 == Visit(st1, st1.graph.val[node_i])
    IN  [st2 EXCEPT !.searched = Append(@, node_i)]

RECURSIVE Drain(_)
Drain(st) == IF st.d = <<>> THEN st ELSE Drain(DrainStep(st))

SortLoop(g) ==
    LET deg == in_degrees(g)
    IN  Drain([graph |-> g, degrees |-> deg, d |-> ZeroDegree(deg), searched |-> <<>>])

sort(g) ==
    LET st == SortLoop(g)
    IN  [graph |-> st.graph, degrees |-> st.degrees, searched |-> st.searched]

----------------------------------------------------------------------------
(* DAG.add *)

Raise(s) == Len(s.searched) > Len(s.graph.keys)

\* add without the test `not node in self.graph`
InsertReset(g, node, to) ==
    LET g1 == Put(g, node, <<>>)
    IN  IF Truthy(to)
        THEN LET g2 == IF ~Has(g1, to) THEN Put(g1, to, <<>>) ELSE g1
             IN  [g2 EXCEPT !.val[node] = Append(@, to)]
        ELSE g1

\* add putting `to` at the front of the list (`insert(0, to)`)
InsertFront(g, node, to) ==
    LET g1 == IF ~Has(g, node) THEN Put(g, node, <<>>) ELSE g
    IN  IF Truthy(to)
        THEN LET g2 == IF ~Has(g1, to) THEN Put(g1, to, <<>>) ELSE g1
             IN  [g2 EXCEPT !.val[node] = <<to>> \o @]
        ELSE g1

\* the insertions of add, before it sorts
Insert(g, node, to) ==
    LET g1 == IF ~Has(g, node) THEN Put(g, node, <<>>) ELSE g
    IN  IF Truthy(to)
        THEN LET g2 == IF ~Has(g1, to) THEN Put(g1, to, <<>>) ELSE g1
             IN  [g2 EXCEPT !.val[node] = Append(@, to)]
        ELSE g1

\* add undoing its insertions when the order comes out short
addRollback(g, node, to) ==
    LET s == sort(Insert(g, node, to))
    IN  IF Len(s.searched) < Len(s.graph.keys)
        THEN [graph |-> g, degrees |-> s.degrees, searched |-> s.searched, raised |-> TRUE]
        ELSE [graph |-> s.graph, degrees |-> s.degrees, searched |-> s.searched,
              raised |-> Raise(s)]

add(g, node, to) ==
    LET s == sort(Insert(g, node, to))
    IN  [graph |-> s.graph, degrees |-> s.degrees, searched |-> s.searched,
         raised |-> Raise(s)]

----------------------------------------------------------------------------
(* Pipeline.task(depends_on)(f) *)

\* task refusing a depends_on that is no node of the graph
taskEager(g, f, depends_on) ==
    IF Truthy(depends_on) /\ ~Has(g, depends_on) /\ depends_on # f
    THEN LET s == sort(g)
         IN  [graph |-> g, degrees |-> s.degrees, searched |-> s.searched, raised |-> TRUE]
    ELSE LET a1 == add(g, f, None)
         IN  IF a1.raised THEN a1
             ELSE IF Truthy(depends_on) THEN add(a1.graph, depends_on, f)
             ELSE a1

task(g, f, depends_on) ==
    LET a1 == add(g, f, None)
    IN  IF a1.raised THEN a1
        ELSE IF Truthy(depends_on) THEN add(a1.graph, depends_on, f)
        ELSE a1

----------------------------------------------------------------------------
(* Units of work *)

NoFault == <<None, None>>
Faults == {NoFault} \cup (Nodes \X (Nodes \cup {None}))

NoInput == <<>>
Producer(arg) == IF arg = NoInput THEN None ELSE arg[Len(arg)]

\* fault = <<t, p>>: t raises when called with the output of p (p = None: with no input)
Raises(flt, t, arg) == flt # NoFault /\ flt[1] = t /\ flt[2] = Producer(arg)

Output(t, arg) == Append(arg, t)

----------------------------------------------------------------------------
(* Pipeline.run: the state of the loops is [completed, calls, status] *)

\* the scan stopping at the first predecessor it matches
RECURSIVE ScanFirst(_, _, _, _, _)
ScanFirst(g, flt, rs, t, j) ==
    IF j > Len(g.keys) THEN rs
    ELSE LET node == g.keys[j]
             values == g.val[node]
         IN  IF In(t, values)
             THEN IF node \notin DOMAIN rs.completed
                  THEN [rs EXCEPT !.status = "keyerror"]
                  ELSE LET arg == rs.completed[node]
                           rs1 == [rs EXCEPT !.calls = Append(@, [task |-> t, arg |-> arg])]
                       IN  IF Raises(flt, t, arg)
                           THEN [rs1 EXCEPT !.status = "failed"]
                           ELSE [rs1 EXCEPT !.completed = (t :> Output(t, arg)) @@ @]
             ELSE ScanFirst(g, flt, rs, t, j + 1)

RECURSIVE Scan(_, _, _, _, _)
Scan(g, flt, rs, t, j) ==
    IF j > Len(g.keys) THEN rs
    ELSE LET node == g.keys[j]
             values == g.val[node]
         IN  IF In(t, values)
             THEN IF node \notin DOMAIN rs.completed
                  THEN [rs EXCEPT !.status = "keyerror"]
                  ELSE LET arg == rs.completed[node]
                           rs1 == [rs EXCEPT !.calls = Append(@, [task |-> t, arg |-> arg])]
                       IN  IF Raises(flt, t, arg)
                           THEN [rs1 EXCEPT !.status = "failed"]
                           ELSE Scan(g, flt,
                                     [rs1 EXCEPT !.completed = (t :> Output(t, arg)) @@ @],
                                     t, j + 1)
             ELSE Scan(g, flt, rs, t, j + 1)

\* the body of the loop without the test `task not in completed`
RunTaskUntested(g, flt, rs, t) ==
    LET rs1 == Scan(g, flt, rs, t, 1)
    IN  IF rs1.status # "ok" THEN rs1
        ELSE LET rs2 == [rs1 EXCEPT !.calls = Append(@, [task |-> t, arg |-> NoInput])]
             IN  IF Raises(flt, t, NoInput)
                 THEN [rs2 EXCEPT !.status = "failed"]
                 ELSE [rs2 EXCEPT !.completed = (t :> Output(t, NoInput)) @@ @]

RunTask(g, flt, rs, t) ==
    LET rs1 == Scan(g, flt, rs, t, 1)
    IN  IF rs1.status # "ok" THEN rs1
        ELSE IF t \notin DOMAIN rs1.completed
        THEN LET rs2 == [rs1 EXCEPT !.calls = Append(@, [task |-> t, arg |-> NoInput])]
             IN  IF Raises(flt, t, NoInput)
                 THEN [rs2 EXCEPT !.status = "failed"]
                 ELSE [rs2 EXCEPT !.completed = (t :> Output(t, NoInput)) @@ @]
        ELSE rs1

RECURSIVE RunTasks(_, _, _, _, _)
RunTasks(g, flt, sched, rs, i) ==
    IF i > Len(sched) \/ rs.status # "ok" THEN rs
    ELSE RunTasks(g, flt, sched, RunTask(g, flt, rs, sched[i]), i + 1)

\* run taking each task it has executed out of the successor lists
runConsuming(g, flt) ==
    LET s  == sort(g)
        rs == RunTasks(s.graph, flt, s.searched,
                       [completed |-> <<>>, calls |-> <<>>, status |-> "ok"], 1)
    IN  [graph |-> [s.graph EXCEPT !.val = [n \in DOMAIN s.graph.val |->
                       SelectSeq(s.graph.val[n], LAMBDA t : t \notin DOMAIN rs.completed)]],
         degrees |-> s.degrees, searched |-> s.searched,
         scheduled |-> s.searched, completed |-> rs.completed, calls |-> rs.calls,
         status |-> IF rs.status = "ok" THEN "returned" ELSE rs.status]

\* run keeping the table of the run before it (`completed` as a field)
runStale(g, flt) ==
    LET s  == sort(g)
        rs == RunTasks(s.graph, flt, s.searched,
                       [completed |-> completed, calls |-> <<>>, status |-> "ok"], 1)
    IN  [graph |-> s.graph, degrees |-> s.degrees, searched |-> s.searched,
         scheduled |-> s.searched, completed |-> rs.completed, calls |-> rs.calls,
         status |-> IF rs.status = "ok" THEN "returned" ELSE rs.status]

run(g, flt) ==
    LET s  == sort(g)
        rs == RunTasks(s.graph, flt, s.searched,
                       [completed |-> <<>>, calls |-> <<>>, status |-> "ok"], 1)
    IN  [graph |-> s.graph, degrees |-> s.degrees, searched |-> s.searched,
         scheduled |-> s.searched, completed |-> rs.completed, calls |-> rs.calls,
         status |-> IF rs.status = "ok" THEN "returned" ELSE rs.status]

----------------------------------------------------------------------------
(* The state machine *)

EdgeCount(g) == LET RECURSIVE Sum(_)
                    Sum(i) == IF i = 0 THEN 0 ELSE Len(g.val[g.keys[i]]) + Sum(i - 1)
                IN  Sum(Len(g.keys))

Renamings == Permutations(DiamondNodes)

\* g is a stage of the construction of the diamond, whatever the order in
\* which its nodes and edges are inserted
IsSubDiamond(g) ==
    /\ DOMAIN g.val \subseteq DiamondNodes
    /\ \E pi \in Renamings :
          \A u \in DOMAIN g.val :
             \A i \in 1..Len(g.val[u]) :
                /\ <<pi[u], pi[g.val[u][i]]>> \in DiamondEdges
                /\ \A j \in 1..Len(g.val[u]) : g.val[u][j] = g.val[u][i] => j = i

\* The graphs explored
Explored(g) ==
    \/ Len(g.keys) <= MaxNodes /\ EdgeCount(g) <= MaxEdges
    \/ IsSubDiamond(g)

\* Node objects are numbered in the order in which they enter the graph.
NextNode(g) == Len(g.keys) + 1
KnownOrNext(g, n) == Has(g, n) \/ n = NextNode(g)

\* op: the method called; known: its first argument was already a node;
\* edge: its second argument was given; other: that argument was already a
\* node; rerun: the call before it was run() too
Called(op, known, edge, other, rerun) ==
    [op |-> op, known |-> known, edge |-> edge, other |-> other, rerun |-> rerun]

Init ==
    /\ graph = EmptyDict
    /\ degrees = EmptyDict
    /\ searched = <<>>
    /\ outcome = "ok"
    /\ scheduled = <<>>
    /\ completed = <<>>
    /\ calls = <<>>
    /\ fault = NoFault
    /\ call = Called("init", FALSE, FALSE, FALSE, FALSE)
    /\ pc = "idle"
    /\ deque = <<>>

\* a call made while no sort() is being followed, and taken as one step
Atomic ==
    /\ pc = "idle"
    /\ UNCHANGED <<pc, deque>>

\* outside run() there is no schedule and no table
NoRun ==
    /\ scheduled' = <<>>
    /\ completed' = <<>>
    /\ calls' = <<>>
    /\ fault' = NoFault

\* dag.add(node, to)
Add(node, to) ==
    /\ Atomic
    /\ KnownOrNext(graph, node)
    /\ Truthy(to) => KnownOrNext(Put(graph, node, <<>>), to)
    /\ Explored(Insert(graph, node, to))
    /\ LET a == add(graph, node, to)
       IN  /\ graph' = a.graph
           /\ degrees' = a.degrees
           /\ searched' = a.searched
           /\ outcome' = IF a.raised THEN "cycle" ELSE "ok"
    /\ call' = Called("add", Has(graph, node), Truthy(to), Has(graph, to), FALSE)
    /\ NoRun

\* pipeline.task(depends_on)(f)
Task(f, depends_on) ==
    /\ Atomic
    /\ KnownOrNext(graph, f)
    /\ Truthy(depends_on) => KnownOrNext(Put(graph, f, <<>>), depends_on)
    /\ Explored(IF Truthy(depends_on) THEN Insert(Insert(graph, f, None), depends_on, f)
                ELSE Insert(graph, f, None))
    /\ LET a == task(graph, f, depends_on)
       IN  /\ graph' = a.graph
           /\ degrees' = a.degrees
           /\ searched' = a.searched
           /\ outcome' = IF a.raised THEN "cycle" ELSE "ok"
    /\ call' = Called("task", Has(graph, f), Truthy(depends_on), Has(graph, depends_on), FALSE)
    /\ NoRun

\* dag.in_degrees()
InDegrees ==
    /\ Atomic
    /\ degrees' = in_degrees(graph)
    /\ UNCHANGED <<graph, searched>>
    /\ outcome' = "ok"
    /\ call' = Called("in_degrees", FALSE, FALSE, FALSE, FALSE)
    /\ NoRun

\* dag.sort()
Sort ==
    /\ Atomic
    /\ LET s == sort(graph)
       IN  /\ graph' = s.graph
           /\ degrees' = s.degrees
           /\ searched' = s.searched
    /\ outcome' = "ok"
    /\ call' = Called("sort", FALSE, FALSE, FALSE, FALSE)
    /\ NoRun

\* flt = <<t, p>> can only be met when p is a predecessor of t (p = None:
\* when t has none)
CanMeet(g, flt) ==
    /\ Has(g, flt[1])
    /\ IF flt[2] = None THEN \A n \in DOMAIN g.val : ~In(flt[1], g.val[n])
       ELSE Has(g, flt[2]) /\ In(flt[1], g.val[flt[2]])

\* pipeline.run(), the units of work behaving as flt says; a fault that no
\* invocation of the run meets is the same behaviour as NoFault
Run(flt) ==
    /\ Atomic
    /\ flt # NoFault => CanMeet(graph, flt)
    /\ LET r == run(graph, flt)
       IN  /\ flt # NoFault => r.status = "failed"
           /\ graph' = r.graph
           /\ degrees' = r.degrees
           /\ searched' = r.searched
           /\ scheduled' = r.scheduled
           /\ completed' = r.completed
           /\ calls' = r.calls
           /\ outcome' = r.status
    /\ fault' = flt
    /\ call' = Called("run", FALSE, FALSE, FALSE, call.op = "run")

Next ==
    \/ \E node \in Nodes, to \in Nodes \cup {None} : Add(node, to)
    \/ \E f \in Nodes, depends_on \in Nodes \cup {None} : Task(f, depends_on)
    \/ InDegrees
    \/ Sort
    \/ \E flt \in Faults : Run(flt)

Spec == Init /\ [][Next]_vars

----------------------------------------------------------------------------
(* DAG.sort followed step by step: one step per iteration of its while loop *)

\* in_degrees(), the deque seeded, `searched` empty
SortBegin ==
    /\ pc = "idle"
    /\ LET deg == in_degrees(graph)
       IN  /\ degrees' = deg
           /\ deque' = ZeroDegree(deg)
    /\ searched' = <<>>
    /\ pc' = "loop"
    /\ outcome' = "sorting"
    /\ call' = Called("sort", FALSE, FALSE, FALSE, FALSE)
    /\ UNCHANGED graph
    /\ NoRun

\* one iteration of `while d`
SortIterate ==
    /\ pc = "loop"
    /\ deque # <<>>
    /\ LET st == DrainStep([graph |-> graph, degrees |-> degrees, d |-> deque,
                            searched |-> searched])
       IN  /\ graph' = st.graph
           /\ degrees' = st.degrees
           /\ deque' = st.d
           /\ searched' = st.searched
    /\ UNCHANGED <<pc, outcome, call, scheduled, completed, calls, fault>>

\* `return searched`
SortReturn ==
    /\ pc = "loop"
    /\ deque = <<>>
    /\ pc' = "idle"
    /\ outcome' = "ok"
    /\ UNCHANGED <<graph, degrees, searched, deque, call, scheduled, completed, calls, fault>>

NextSort ==
    \/ \E node \in Nodes, to \in Nodes \cup {None} : Add(node, to)
    \/ \E f \in Nodes, depends_on \in Nodes \cup {None} : Task(f, depends_on)
    \/ SortBegin
    \/ SortIterate
    \/ SortReturn

\* a sort() that was called runs on: the program is sequential
SpecSort == Init /\ [][NextSort]_vars /\ WF_vars(SortIterate \/ SortReturn)

----------------------------------------------------------------------------
(* Graph notions the properties are stated with *)

Succ(g, n) == {g.val[n][i] : i \in 1..Len(g.val[n])}

Preds(g, t) == {n \in DOMAIN g.val : In(t, g.val[n])}

RECURSIVE Grow(_, _, _)
Grow(g, S, k) ==
    IF k = 0 THEN S ELSE Grow(g, S \cup UNION {Succ(g, n) : n \in S}, k - 1)

\* the nodes at the end of a path of one edge or more from n
ReachFrom(g, n) == Grow(g, Succ(g, n), Len(g.keys))

HasCycle(g) == \E n \in DOMAIN g.val : n \in ReachFrom(g, n)

Pos(seq, x) == CHOOSE i \in 1..Len(seq) : seq[i] = x

Invoked == [i \in 1..Len(calls) |-> calls[i].task]

----------------------------------------------------------------------------
(* Properties *)

\* C1: on an acyclic graph built by add/register calls, sort() returns every
\* node of the graph exactly once, and every edge (u, v) has u before v.
SortIsTopologicalOrder ==
    ~HasCycle(graph) =>
        /\ Len(searched) = Len(graph.keys)
        /\ \A n \in DOMAIN graph.val : In(n, searched)
        /\ \A u \in DOMAIN graph.val : \A v \in Succ(graph, u) :
              Pos(searched, u) < Pos(searched, v)

SortedAgainstInsertionOrder ==
    /\ call.op = "sort"
    /\ ~HasCycle(graph)
    /\ EdgeCount(graph) >= 2
    /\ Len(searched) >= 3
    /\ searched # graph.keys

\* C2: an edge insertion (add(node, to), or task(depends_on)(f)) that closes a
\* directed cycle, a self-edge included, fails with the cycle error.
EdgeAppended(u, v) ==
    /\ Has(graph', u)
    /\ graph'.val[u] = Append(IF Has(graph, u) THEN graph.val[u] ELSE <<>>, v)

CycleClosingInsertionFails ==
    [][\A u, v \in Nodes :
          (/\ call'.op \in {"add", "task"}
           /\ call'.edge
           /\ EdgeAppended(u, v)
           /\ u \in ReachFrom(graph', v)) => outcome' = "cycle"]_vars

\* C3: after every call that returned without error the graph has no directed
\* cycle, so every run() starts from an acyclic graph.
AcyclicUnlessRejected == outcome # "cycle" => ~HasCycle(graph)

\* C4: in a run over a graph whose nodes have at most one predecessor each, a
\* node without predecessor is invoked with no input and a node with
\* predecessor p with the output p produced and recorded earlier in the run;
\* for a chain a -> b -> c the table holds c(b(a())), b(a()) and a().
OnePredecessor(g) == \A t \in DOMAIN g.val : Cardinality(Preds(g, t)) <= 1

ThePred(g, t) == CHOOSE p \in Preds(g, t) : TRUE

ChainThreadsOutputs ==
    (call.op = "run" /\ outcome \in {"returned", "failed"} /\ OnePredecessor(graph)) =>
        /\ \A i \in 1..Len(calls) :
              LET t == calls[i].task
              IN  IF Preds(graph, t) = {} THEN calls[i].arg = NoInput
                  ELSE LET p == ThePred(graph, t)
                       IN  /\ p \in DOMAIN completed
                           /\ calls[i].arg = completed[p]
                           /\ \E j \in 1..(i - 1) :
                                 /\ calls[j].task = p
                                 /\ calls[i].arg = Output(p, calls[j].arg)
        /\ outcome = "returned" =>
              /\ \A t \in DOMAIN completed :
                    \E i \in 1..Len(calls) :
                       calls[i].task = t /\ completed[t] = Output(t, calls[i].arg)
              /\ \A a, b, c \in DOMAIN graph.val :
                    (Preds(graph, a) = {} /\ Preds(graph, b) = {a} /\ Preds(graph, c) = {b}) =>
                        /\ {a, b, c} \subseteq DOMAIN completed
                        /\ completed[a] = <<a>>
                        /\ completed[b] = <<a, b>>
                        /\ completed[c] = <<a, b, c>>

ChainHasRun ==
    /\ call.op = "run"
    /\ outcome = "returned"
    /\ OnePredecessor(graph)
    /\ \E a, b, c \in DOMAIN graph.val :
          /\ Preds(graph, a) = {} /\ Preds(graph, b) = {a} /\ Preds(graph, c) = {b}
          /\ c \in DOMAIN completed
          /\ completed[c] = <<a, b, c>>

\* C5: in one run() every node's work is invoked exactly once and the sequence
\* of invocations is the order sort() computed for the run, also when a node
\* has more than one predecessor (stated on acyclic graphs, where the
\* order holds every node).
EachNodeInvokedOnce ==
    (call.op = "run" /\ outcome = "returned" /\ ~HasCycle(graph)) =>
        /\ Invoked = scheduled
        /\ \A n \in DOMAIN graph.val :
              Cardinality({i \in 1..Len(calls) : calls[i].task = n}) = 1

\* C6: when a unit of work raises, run() aborts: no node later in the order is
\* invoked, and the table holds entries for exactly the nodes that completed
\* before the failing one.
AbortKeepsCompletedPrefix ==
    (call.op = "run" /\ outcome = "failed") =>
        LET failing == calls[Len(calls)].task
            k == Pos(scheduled, failing)
        IN  /\ \A i \in 1..Len(calls) : Pos(scheduled, calls[i].task) <= k
            /\ DOMAIN completed = {scheduled[i] : i \in 1..(k - 1)}

\* C7: for a node with several predecessors, the table returned by run() holds
\* its work applied to the output of the predecessor that comes last in the
\* node-insertion order of the graph; in the diamond a -> b, a -> c, b -> d,
\* c -> d with b inserted before c, results[d] = d(results[c]).
LastPred(g, t) ==
    g.keys[CHOOSE j \in 1..Len(g.keys) :
              /\ In(t, g.val[g.keys[j]])
              /\ \A k \in (j + 1)..Len(g.keys) : ~In(t, g.val[g.keys[k]])]

IsDiamond(g, a, b, c, d) ==
    /\ Cardinality({a, b, c, d}) = 4
    /\ Preds(g, a) = {} /\ Preds(g, b) = {a} /\ Preds(g, c) = {a} /\ Preds(g, d) = {b, c}
    /\ Pos(g.keys, b) < Pos(g.keys, c)

LastPredecessorWins ==
    (call.op = "run" /\ outcome = "returned") =>
        /\ \A t \in DOMAIN completed :
              Preds(graph, t) # {} =>
                  /\ LastPred(graph, t) \in DOMAIN completed
                  /\ completed[t] = Output(t, completed[LastPred(graph, t)])
        /\ \A a, b, c, d \in DOMAIN graph.val :
              IsDiamond(graph, a, b, c, d) =>
                  /\ {c, d} \subseteq DOMAIN completed
                  /\ completed[d] = Output(d, completed[c])
                  /\ completed[d] = <<a, c, d>>

DiamondHasRun ==
    /\ call.op = "run"
    /\ outcome = "returned"
    /\ \E a, b, c, d \in DOMAIN graph.val :
          /\ IsDiamond(graph, a, b, c, d)
          /\ d \in DOMAIN completed
          /\ completed[d] = <<a, c, d>>

\* C8: registering a work that is already a node, with depends_on unspecified
\* (and add on a present node, without `to`), leaves the node set and every
\* successor list as they were.
RegisterAgainIsNoOp ==
    [][(call'.op \in {"add", "task"} /\ call'.known /\ ~call'.edge) =>
          (graph' = graph /\ outcome' = "ok")]_vars

RegisteredAgain ==
    /\ call.op = "task"
    /\ call.known
    /\ ~call.edge
    /\ Len(graph.keys) >= 2
    /\ \A n \in DOMAIN graph.val : graph.val[n] # <<>>

\* C9: run(), whether it completes or aborts on a work failure, and a direct
\* call of sort() leave the graph as it was: nodes, insertion order and
\* successor lists.
RunLeavesGraph ==
    [][call'.op \in {"run", "sort"} => graph' = graph]_vars

RunAbortedOnGraph ==
    /\ call.op = "run"
    /\ outcome = "failed"
    /\ EdgeCount(graph) >= 2
    /\ completed # <<>>

\* C10: run() can be called again and again; each call recomputes the order
\* and fills its own table: with the same deterministic units of work, two
\* runs on the same graph make the same invocations and end with equal
\* tables, and every input a run passes was produced in that same run.
ReadsOwnRun ==
    \A i \in 1..Len(calls) :
       calls[i].arg # NoInput =>
           \E j \in 1..(i - 1) : calls[i].arg = Output(calls[j].task, calls[j].arg)

RunsAreIndependent ==
    /\ []ReadsOwnRun
    /\ [][(call.op = "run" /\ call'.op = "run" /\ fault' = fault) =>
             /\ outcome' = outcome
             /\ scheduled' = scheduled
             /\ calls' = calls
             /\ completed' = completed]_vars

RunRepeated ==
    /\ call.op = "run"
    /\ call.rerun
    /\ outcome = "returned"
    /\ Len(calls) >= 3


\* C11: on a graph with a directed cycle sort() returns fewer nodes than the
\* graph has: it leaves out exactly the nodes on a cycle or reachable from
\* one, and holds every other node.
OnCycle(g, n) == n \in ReachFrom(g, n)

OnOrAfterCycle(g, n) ==
    \E m \in DOMAIN g.val : OnCycle(g, m) /\ (n = m \/ n \in ReachFrom(g, m))

CyclicSortIsShort ==
    HasCycle(graph) =>
        /\ Len(searched) < Len(graph.keys)
        /\ \A n \in DOMAIN graph.val : In(n, searched) <=> ~OnOrAfterCycle(graph, n)

SortedAroundCycle ==
    /\ call.op = "sort"
    /\ HasCycle(graph)
    /\ searched # <<>>
    /\ \E n \in DOMAIN graph.val : ~OnCycle(graph, n) /\ OnOrAfterCycle(graph, n)

\* C13: sort() is the FIFO Kahn order: the nodes without incoming edge are
\* seeded in the key order of the graph, a successor is enqueued when its
\* remaining in-degree reaches zero, successors are visited in list order;
\* the result is that of a reference implementation seeding from the keys of
\* the graph, on every graph.
InDegree(g, n) ==
    Cardinality({e \in (DOMAIN g.val) \X (1..EdgeCount(g)) :
                    e[2] <= Len(g.val[e[1]]) /\ g.val[e[1]][e[2]] = n})

RECURSIVE KahnRelax(_, _, _)
KahnRelax(left, queue, succs) ==
    IF succs = <<>> THEN <<left, queue>>
    ELSE LET v == Head(succs)
             left1 == [left EXCEPT ![v] = @ - 1]
         IN  KahnRelax(left1, IF left1[v] = 0 THEN Append(queue, v) ELSE queue, Tail(succs))

RECURSIVE KahnLoop(_, _, _, _)
KahnLoop(g, left, queue, order) ==
    IF queue = <<>> THEN order
    ELSE LET u == Head(queue)
             r == KahnRelax(left, Tail(queue), g.val[u])
         IN  KahnLoop(g, r[1], r[2], Append(order, u))

KahnOrder(g) ==
    LET left == [n \in DOMAIN g.val |-> InDegree(g, n)]
    IN  KahnLoop(g, left, SelectSeq(g.keys, LAMBDA n : left[n] = 0), <<>>)

SortIsFifoKahn == searched = KahnOrder(graph)

SortedWithShuffledDegrees ==
    /\ call.op = "sort"
    /\ degrees.keys # graph.keys
    /\ Len(SelectSeq(graph.keys, LAMBDA n : InDegree(graph, n) = 0)) >= 2
    /\ Len(searched) >= 3


\* the step is the call add(node, to), with `to` given
AddStep(node, to) ==
    /\ call'.op = "add"
    /\ call'.edge
    /\ call'.known = Has(graph, node)
    /\ call'.other = Has(graph, to)
    /\ Add(node, to)

\* the step is the call task(depends_on)(f), with depends_on given
TaskStep(f, depends_on) ==
    /\ call'.op = "task"
    /\ call'.edge
    /\ call'.known = Has(graph, f)
    /\ call'.other = Has(graph, depends_on)
    /\ Task(f, depends_on)

\* C12, as claimed: registering a work with a depends_on handle that was never
\* registered is rejected by the registration call, which fails and does not
\* add the unknown handle to the graph.
UnknownPredecessorRejected ==
    [][\A f, depends_on \in Nodes :
          (~Has(graph, depends_on) /\ depends_on # f /\ TaskStep(f, depends_on)) =>
              (outcome' # "ok" /\ ~Has(graph', depends_on))]_vars

\* C12, amended: registering a work with a depends_on handle that was never
\* registered is not rejected: the call returns normally and has added the
\* unknown handle as the last node of the graph, with the work as its only
\* successor.
UnknownPredecessorInserted ==
    [][\A f, depends_on \in Nodes :
          (~Has(graph, depends_on) /\ depends_on # f /\ TaskStep(f, depends_on)) =>
              /\ outcome' = "ok"
              /\ graph'.keys = Append(IF Has(graph, f) THEN graph.keys
                                      ELSE Append(graph.keys, f), depends_on)
              /\ graph'.val[depends_on] = <<f>>]_vars

UnknownPredecessorRegistered ==
    /\ call.op = "task"
    /\ call.edge
    /\ ~call.other
    /\ outcome = "ok"
    /\ Len(graph.keys) >= 2
    /\ graph.val[graph.keys[Len(graph.keys)]] # <<>>
    /\ graph.val[graph.keys[Len(graph.keys)]][1] # graph.keys[Len(graph.keys)]

\* C15: every node in a successor list is a key of the graph; add(node, to)
\* inserts node, then to, when missing, appends to at the end of node's
\* successor list and changes no other successor list.
SuccessorsAreKeys ==
    \A n \in DOMAIN graph.val : Succ(graph, n) \subseteq DOMAIN graph.val

AddAppendsEdge ==
    /\ []SuccessorsAreKeys
    /\ [][\A node, to \in Nodes :
             AddStep(node, to) =>
                 LET k1 == IF Has(graph, node) THEN graph.keys ELSE Append(graph.keys, node)
                     k2 == IF In(to, k1) THEN k1 ELSE Append(k1, to)
                 IN  /\ graph'.keys = k2
                     /\ graph'.val[node] =
                           Append(IF Has(graph, node) THEN graph.val[node] ELSE <<>>, to)
                     /\ \A n \in (DOMAIN graph'.val) \ {node} :
                           graph'.val[n] = IF Has(graph, n) THEN graph.val[n] ELSE <<>>]_vars

AddedEdgeBetweenNewNodes ==
    /\ call.op = "add"
    /\ call.edge
    /\ ~call.known
    /\ ~call.other
    /\ Len(graph.keys) >= 3
    /\ EdgeCount(graph) >= 2

\* C16: there is no rollback: after add(node, to), or a registration with
\* depends_on, whose edge closes a cycle, both endpoints are keys of the graph
\* and the edge is the last of node's successor list, whatever the outcome.
ClosesCycle(g, u, v) == u = v \/ (Has(g, u) /\ Has(g, v) /\ u \in ReachFrom(g, v))

CycleEdgeStays ==
    [][\A u, v \in Nodes :
          (ClosesCycle(graph, u, v) /\ (AddStep(u, v) \/ TaskStep(v, u))) =>
              /\ Has(graph', u)
              /\ Has(graph', v)
              /\ Len(graph'.val[u]) = (IF Has(graph, u) THEN Len(graph.val[u]) ELSE 0) + 1
              /\ graph'.val[u][Len(graph'.val[u])] = v]_vars

CycleLeftInGraph ==
    /\ call.op \in {"add", "task"}
    /\ call.edge
    /\ EdgeCount(graph) = 2
    /\ \E u, v \in DOMAIN graph.val : u # v /\ graph.val[u] = <<v>> /\ graph.val[v] = <<u>>

\* C17: when run() returns normally the keys of the returned table are the
\* nodes of the graph: every registered work was executed and has an entry.
ReturnedTableHoldsEveryNode ==
    (call.op = "run" /\ outcome = "returned") => DOMAIN completed = DOMAIN graph.val

\* C18: run() never reads a missing result: when it invokes a node, each of the
\* node's predecessors was invoked before and has its entry in the table of
\* the run, also on graphs with cycles, self-edges and duplicate edges.
NeverReadsMissingResult ==
    /\ outcome # "keyerror"
    /\ call.op = "run" =>
          \A i \in 1..Len(calls) :
             \A p \in Preds(graph, calls[i].task) :
                /\ p \in DOMAIN completed
                /\ \E j \in 1..(i - 1) : calls[j].task = p

RunAroundCycle ==
    /\ call.op = "run"
    /\ HasCycle(graph)
    /\ \E i \in 1..Len(calls) : calls[i].arg # NoInput


\* C14: after in_degrees() the degree table has an entry for every node of the
\* graph and for nothing else, and the value of a node is the number of edges
\* that target it, counted with multiplicity (0 for a node no edge targets).
InDegreesCountsEdges ==
    call.op = "in_degrees" =>
        /\ DOMAIN degrees.val = DOMAIN graph.val
        /\ Len(degrees.keys) = Len(graph.keys)
        /\ \A n \in DOMAIN graph.val :
              In(n, degrees.keys) /\ degrees.val[n] = InDegree(graph, n)

CountedDegrees ==
    /\ call.op = "in_degrees"
    /\ \E n \in DOMAIN graph.val : degrees.val[n] >= 2
    /\ \E n \in DOMAIN graph.val : degrees.val[n] = 0


\* C19: sort() terminates on every finite graph, with cycles, self-edges and
\* duplicate edges too; no node enters the deque twice, so the result never
\* holds a node twice and is never longer than the number of nodes.
EnqueuedOnce ==
    LET seen == searched \o deque
    IN  /\ Len(seen) <= Len(graph.keys)
        /\ \A i, j \in 1..Len(seen) : seen[i] = seen[j] => i = j

SortTerminates ==
    /\ []EnqueuedOnce
    /\ [][SortIterate => Len(searched') = Len(searched) + 1]_vars
    /\ (pc = "loop") ~> (pc = "idle")

SortEndedOnCycle ==
    /\ pc = "idle"
    /\ call.op = "sort"
    /\ outcome = "ok"
    /\ HasCycle(graph)
    /\ \E n \in DOMAIN graph.val : Len(graph.val[n]) >= 2
    /\ searched # <<>>

====
